---------------------------- MODULE Spec2Model ----------------------------
(***************************************************************************)
(* Zone-computation engine of the geomarketing repository                  *)
(* (src/zones_core_km.py): the process-wide IRIS index, the zone cache,    *)
(* _get_zone_for_group_distance and compute_zones_for_relais.              *)
(*                                                                         *)
(* Geometry.  All IRIS cells of a dataset lie on one meridian (longitude   *)
(* 0).  A position is a signed distance along that meridian in metres     *)
(* (0.001 km), so the haversine distance of two centroids is the absolute  *)
(* difference of their positions (the dlon term of the formula is 0), and  *)
(* a value rounded to 2 decimals of a km is a multiple of 10.  A radius    *)
(* (rayon_km) is held in metres as well.  A cell polygon is the interval   *)
(* [lo, hi]; its centroid need not be the middle.                          *)
(* EPSG:3857 (Web Mercator) stretches ground distances by sec(latitude):   *)
(* a dataset carries that local scale as the rational merc_num/merc_den    *)
(* (1/1 on the equator, 3/2 near 48 degrees north).                        *)
(* Floating-point rounding of the comparisons is not modelled: the         *)
(* arithmetic is exact.                                                    *)
(***************************************************************************)
EXTENDS Integers, Sequences, FiniteSets, TLC

VARIABLES
    IRIS_GDF_3857,        \* _IRIS_GDF_3857: "None" or the dataset it was projected from
    IRIS_SINDEX,          \* _IRIS_SINDEX: "None" or the dataset it indexes
    IRIS_CENTROIDS_4326,  \* _IRIS_CENTROIDS_4326: "None" or the dataset of its centroids
    ZONE_CACHE_KM,        \* _ZONE_CACHE_KM: cache key -> [codes, stats]
    lastCall,             \* the last top-level call, when a _get_zone_for_group_distance call
    run,                  \* the last top-level call, when a compute_zones_for_relais run
    firstStored,          \* history: (centre, class, rayon) -> what its first successful call stored
    ncalls,               \* number of top-level calls made so far
    stats_call,           \* a direct call of calculer_stats_zone_complet: its rows, its result
    iris_frames,          \* the iris_socio_gdf tables the caller holds: dataset -> code -> row
    conc                  \* calls running in threads of one process: the table they pass,
                          \* and each thread's position, arguments and outcome

vars == <<IRIS_GDF_3857, IRIS_SINDEX, IRIS_CENTROIDS_4326, ZONE_CACHE_KM,
          lastCall, run, firstStored, ncalls, stats_call, iris_frames, conc>>

(***************************************************************************)
(* Bounds of the model                                                     *)
(***************************************************************************)
\* top-level calls (direct resolutions and pipeline runs) per behaviour
MaxCalls == 3

None == "None"

Abs(x) == IF x < 0 THEN -x ELSE x

RECURSIVE SumOver(_, _)
\* sum of f[x] for x in S
SumOver(S, f) ==
    IF S = {} THEN 0
    ELSE LET x == CHOOSE y \in S : TRUE IN f[x] + SumOver(S \ {x}, f)

Max(S) == CHOOSE x \in S : \A y \in S : y <= x

\* Python round() of the exact rational n/d (d > 0) to an integer: half to even
RoundHalfEven(n, d) ==
    LET q == n \div d
        r == n % d
    IN  IF 2 * r < d THEN q
        ELSE IF 2 * r > d THEN q + 1
        ELSE IF q % 2 = 0 THEN q ELSE q + 1

\* round(x, 2) of x = n/d metres taken in km, given back in metres
Round2(n, d) == 10 * RoundHalfEven(n, 10 * d)

(***************************************************************************)
(* Environment-class labels: strings as sequences of characters            *)
(***************************************************************************)
\* str.lower() on one character
LowerChar(ch) ==
    CASE ch = "U" -> "u"
      [] ch = "R" -> "r"
      [] ch = "B" -> "b"
      [] OTHER -> ch

Lower(s) == [i \in 1..Len(s) |-> LowerChar(s[i])]

RECURSIVE StripLeft(_)
StripLeft(s) == IF s # <<>> /\ Head(s) = " " THEN StripLeft(Tail(s)) ELSE s

RECURSIVE StripRight(_)
StripRight(s) ==
    IF s # <<>> /\ s[Len(s)] = " " THEN StripRight(SubSeq(s, 1, Len(s) - 1)) ELSE s

\* str.strip()
Strip(s) == StripRight(StripLeft(s))

\* a normalization that forgets strip()
NormalizeEnvNoStrip(env_val) == Lower(env_val)

\* env_val_norm = str(env_val).strip().lower()
NormalizeEnv(env_val) == Lower(Strip(env_val))

urb == <<"u", "r", "b">>
rur == <<"r", "u", "r">>
Urb_padded == <<" ", "U", "r", "b">>
RUR_padded == <<"R", "U", "R", " ">>

\* the class labels a point can carry
EnvLabels == {urb, Urb_padded, RUR_padded}

(***************************************************************************)
(* env_params: label -> dict of parameters                                 *)
(***************************************************************************)
NoParams == [x \in {} |-> 0]

\* three configurations a caller may pass: both classes valid; the radius of
\* urb changed and a negative radius for rur; a key that is not normalized
\* and an entry without "rayon_km"
EnvParamsChoices ==
    { (urb :> ("rayon_km" :> 2000)) @@ (rur :> ("rayon_km" :> 4000)),
      (urb :> ("rayon_km" :> 4330)) @@ (rur :> ("rayon_km" :> (0 - 1000))),
      (Urb_padded :> ("rayon_km" :> 2000)) @@ (rur :> NoParams) }

(***************************************************************************)
(* IRIS datasets (iris_socio_gdf): CODE_IRIS -> cell                       *)
(***************************************************************************)
Cell(lat, lo, hi, pop, rev) ==
    [lat_centroid |-> lat, lon_centroid |-> 0, lo |-> lo, hi |-> hi,
     POP_TOTAL |-> pop, REVENU_MEDIAN |-> rev]

age_cols == {"AGE_0_17", "ETUDIANTS_18_24", "ACTIFS_25_39", "AGE_40_64", "AGE_65_PLUS"}

sexe_cols == {"HOMMES", "FEMMES"}

csp_cols == {"AGRICULTEURS", "COMMERCANTS", "CADRES", "INTERMEDIAIRES",
             "EMPLOYES", "OUVRIERS", "RETRAITES", "AUTRES_INACTIFS"}

\* the age columns of a row
Ages(a1, a2, a3, a4, a5) ==
    [AGE_0_17 |-> a1, ETUDIANTS_18_24 |-> a2, ACTIFS_25_39 |-> a3,
     AGE_40_64 |-> a4, AGE_65_PLUS |-> a5]

\* the sex columns of a row
Sexes(h, f) == [HOMMES |-> h, FEMMES |-> f]

\* the occupation columns of a row: farmers, shopkeepers and executives
\* given, intermediate professions given, the four others given as one value
Csp(agri, comm, cadres, inter, autres) ==
    [AGRICULTEURS |-> agri, COMMERCANTS |-> comm, CADRES |-> cadres,
     INTERMEDIAIRES |-> inter, EMPLOYES |-> autres, OUVRIERS |-> autres,
     RETRAITES |-> autres, AUTRES_INACTIFS |-> autres]

\* One dataset near 48 degrees north (scale 3/2), one on the equator whose
\* cells c2, c3 lie elsewhere, that has no c4, has two overlapping cells and
\* a cell c5 whose centroid is 4.546 km from that of c1,
\* one whose rows exercise the statistics (rows without income, a row
\* without inhabitants, rows whose age, sex or occupation columns are all
\* 0), and one that lacks the FEMMES and CADRES columns.  A has the
\* demographic columns, B has none of them.
Datasets ==
    ("A" :> [merc_num |-> 3, merc_den |-> 2,
             cells |-> ("c1" :> (Cell(0, -100, 100, 100, <<20000>>)
                                  @@ Ages(20, 20, 20, 20, 20) @@ Sexes(48, 52)
                                  @@ Csp(1, 2, 3, 4, 5)))
                    @@ ("c2" :> (Cell(1500, 1400, 1600, 50, <<>>)
                                  @@ Ages(7, 3, 20, 15, 5) @@ Sexes(25, 25)
                                  @@ Csp(0, 0, 0, 0, 0)))
                    @@ ("c3" :> (Cell(2050, 2000, 2100, 30, <<30000>>)
                                  @@ Ages(0, 0, 0, 0, 0) @@ Sexes(10, 20)
                                  @@ Csp(0, 3, 0, 0, 3)))
                    @@ ("c4" :> (Cell(6000, 5900, 6100, 10, <<10000>>)
                                  @@ Ages(1, 1, 1, 0, 0) @@ Sexes(0, 0)
                                  @@ Csp(0, 0, 0, 0, 0)))])
 @@ ("B" :> [merc_num |-> 1, merc_den |-> 1,
             cells |-> ("c1" :> Cell(0, -100, 100, 80, <<25000>>))
                    @@ ("c2" :> Cell(3000, 2800, 3200, 40, <<15000>>))
                    @@ ("c3" :> Cell(1000, 50, 1200, 60, <<>>))
                    @@ ("c5" :> Cell(4546, 4400, 4600, 20, <<>>))])
 @@ ("S" :> [merc_num |-> 1, merc_den |-> 1,
             cells |-> ("s1" :> (Cell(0, -100, 100, 100, <<20000>>)
                                  @@ Ages(10, 10, 10, 10, 10) @@ Sexes(48, 52)
                                  @@ Csp(1, 2, 3, 4, 5)))
                    @@ ("s2" :> (Cell(300, 200, 400, 50, <<>>)
                                  @@ Ages(7, 3, 20, 15, 5) @@ Sexes(25, 25)
                                  @@ Csp(0, 0, 0, 0, 0)))
                    @@ ("s3" :> (Cell(600, 500, 700, 0, <<30000>>)
                                  @@ Ages(0, 0, 0, 0, 0) @@ Sexes(0, 0)
                                  @@ Csp(0, 0, 0, 0, 0)))
                    @@ ("s4" :> (Cell(900, 800, 1000, 30, <<10001>>)
                                  @@ Ages(0, 0, 0, 0, 0) @@ Sexes(10, 20)
                                  @@ Csp(0, 3, 0, 0, 3)))
                    @@ ("s5" :> (Cell(1200, 1100, 1300, 7, <<>>)
                                  @@ Ages(1, 1, 1, 0, 0) @@ Sexes(0, 0)
                                  @@ Csp(0, 0, 0, 0, 0)))
                    @@ ("s6" :> (Cell(1500, 1400, 1600, 1, <<33333>>)
                                  @@ Ages(0, 0, 0, 0, 1) @@ Sexes(1, 0)
                                  @@ Csp(1, 0, 0, 0, 0)))])
 @@ ("T" :> [merc_num |-> 1, merc_den |-> 1,
             cells |-> ("t1" :> (Cell(0, -100, 100, 40, <<18000>>)
                                  @@ Ages(5, 5, 10, 15, 5) @@ [HOMMES |-> 20]
                                  @@ [AGRICULTEURS |-> 2, COMMERCANTS |-> 5]))
                    @@ ("t2" :> (Cell(300, 200, 400, 9, <<>>)
                                  @@ Ages(0, 0, 0, 0, 0) @@ [HOMMES |-> 4]
                                  @@ [AGRICULTEURS |-> 0, COMMERCANTS |-> 1]))
                    @@ ("t3" :> (Cell(600, 500, 700, 3, <<21000>>)
                                  @@ Ages(1, 0, 0, 1, 1) @@ [HOMMES |-> 2]
                                  @@ [AGRICULTEURS |-> 1, COMMERCANTS |-> 0]))])

\* the cell sets a caller passes to the zone engine
DatasetNames == {"A", "B"}

Codes(ds) == DOMAIN Datasets[ds].cells

\* df.columns: the columns of the table, which every row has
Columns(ds) == DOMAIN Datasets[ds].cells[CHOOSE c \in Codes(ds) : TRUE]

\* the centre codes a caller may pass
CentreCodes == {"c1", "c4", "zz"}

(***************************************************************************)
(* DistanceModel                                                           *)
(***************************************************************************)
\* haversine_km on one meridian: dlon = 0, so a = sin(dlat/2)^2 and
\* R * c = R * |dlat|, the distance along the meridian
haversine_km(lat1, lon1, lat2, lon2) == Abs(lat2 - lat1)


(***************************************************************************)
(* CellIndex: the module-level index and centroid table                    *)
(***************************************************************************)
\* the module globals as one value
Globals(gdf, sindex, centroids, cache) ==
    [gdf |-> gdf, sindex |-> sindex, centroids |-> centroids, cache |-> cache]

\* _prepare_iris_index: builds the three globals from the dataset passed,
\* unless _IRIS_GDF_3857 is already set
PrepareIrisIndex(g, iris_socio_gdf) ==
    IF g.gdf # None THEN g
    ELSE [g EXCEPT !.gdf = iris_socio_gdf,
                   !.sindex = iris_socio_gdf,
                   !.centroids = iris_socio_gdf]

\* geometry of a cell in EPSG:3857, in units of 1/merc_den of a metre
Geom3857(ds, code) ==
    LET d == Datasets[ds] IN
    [lo |-> d.cells[code].lo * d.merc_num, hi |-> d.cells[code].hi * d.merc_num]

\* a buffer with the sign of the distance flipped: the geometry eroded
BufferNegative(ds, geom, rayon_km) ==
    [lo |-> geom.lo + rayon_km * Datasets[ds].merc_den,
     hi |-> geom.hi - rayon_km * Datasets[ds].merc_den]

\* centre_geom_3857.buffer(rayon_km * 1000.0): the geometry widened by the
\* radius taken as EPSG:3857 metres
Buffer(ds, geom, rayon_km) ==
    [lo |-> geom.lo - rayon_km * Datasets[ds].merc_den,
     hi |-> geom.hi + rayon_km * Datasets[ds].merc_den]

\* _IRIS_SINDEX.query(buffer_m): the cells whose bounding box meets the buffer's
SindexQuery(ds, buffer_m) ==
    {code \in Codes(ds) :
        /\ Geom3857(ds, code).lo <= buffer_m.hi
        /\ Geom3857(ds, code).hi >= buffer_m.lo}

\* the "if d_km <= rayon_km * 1.05" test
WithinSlack(d_km, rayon_km) == 100 * d_km <= 105 * rayon_km

(***************************************************************************)
(* StatsAggregator                                                         *)
(***************************************************************************)
\* a weighted income whose weights are summed over every row, with or
\* without income
RevenuPondereAllRows(ds, codes) ==
    IF {c \in codes : Datasets[ds].cells[c].REVENU_MEDIAN # <<>>} = {} THEN <<>>
    ELSE IF SumOver(codes, [c \in codes |-> Datasets[ds].cells[c].POP_TOTAL]) = 0
    THEN <<0, 0>>
    ELSE <<RoundHalfEven(
             100 * SumOver({c \in codes : Datasets[ds].cells[c].REVENU_MEDIAN # <<>>},
                           [c \in {d \in codes : Datasets[ds].cells[d].REVENU_MEDIAN # <<>>} |->
                               Datasets[ds].cells[c].POP_TOTAL
                                   * Datasets[ds].cells[c].REVENU_MEDIAN[1]]),
             SumOver(codes, [c \in codes |-> Datasets[ds].cells[c].POP_TOTAL]))>>

\* weighted income of the rows: <<>> is None, <<v>> is v cents, <<0, 0>> is NaN
RevenuPondere(ds, codes) ==
    LET cells == Datasets[ds].cells
        df_revenu == {c \in codes : cells[c].REVENU_MEDIAN # <<>>}
        poids == SumOver(df_revenu, [c \in df_revenu |-> cells[c].POP_TOTAL])
        prod == SumOver(df_revenu,
                    [c \in df_revenu |-> cells[c].POP_TOTAL * cells[c].REVENU_MEDIAN[1]])
    IN  IF df_revenu = {} THEN <<>>
        ELSE IF poids = 0 THEN <<0, 0>>
        ELSE <<RoundHalfEven(100 * prod, poids)>>

\* a key left out of resultats
Omitted == [x \in {} |-> 0]

\* df_zone[col].sum(skipna=True)
ColTotal(ds, codes, col) == SumOver(codes, [c \in codes |-> Datasets[ds].cells[c][col]])

\* df_zone[cols].sum(skipna=True).sum()
ColsTotal(ds, codes, cols) == SumOver(cols, [col \in cols |-> ColTotal(ds, codes, col)])

\* round(part / total * 100, 1), in tenths of a percent
Percent(part, total) == RoundHalfEven(1000 * part, total)

\* shares left as fractions of 1: the "* 100" forgotten
DistributionFractions(ds, codes, cols) ==
    [col \in cols |->
        10 * RoundHalfEven(10 * ColTotal(ds, codes, col), ColsTotal(ds, codes, cols))]

\* ((totaux / totaux.sum()) * 100).round(1).to_dict()
Distribution(ds, codes, cols) ==
    [col \in cols |-> Percent(ColTotal(ds, codes, col), ColsTotal(ds, codes, cols))]

\* an age distribution that is also left out when the sex total is 0
RepartitionAgeNeedsSexe(ds, codes) ==
    IF age_cols \subseteq Columns(ds) /\ sexe_cols \subseteq Columns(ds)
       /\ ColsTotal(ds, codes, age_cols) > 0 /\ ColsTotal(ds, codes, sexe_cols) > 0
    THEN ("Repartition par age (%)" :> Distribution(ds, codes, age_cols))
    ELSE Omitted

\* the "Repartition par age (%)" entry, or nothing
RepartitionAge(ds, codes) ==
    IF age_cols \subseteq Columns(ds) /\ ColsTotal(ds, codes, age_cols) > 0
    THEN ("Repartition par age (%)" :> Distribution(ds, codes, age_cols))
    ELSE Omitted

\* the "Repartition par sexe (%)" entry, or nothing
RepartitionSexe(ds, codes) ==
    IF sexe_cols \subseteq Columns(ds) /\ ColsTotal(ds, codes, sexe_cols) > 0
    THEN ("Repartition par sexe (%)" :>
              (("Hommes (%)" :> Percent(ColTotal(ds, codes, "HOMMES"),
                                        ColsTotal(ds, codes, sexe_cols)))
            @@ ("Femmes (%)" :> Percent(ColTotal(ds, codes, "FEMMES"),
                                        ColsTotal(ds, codes, sexe_cols)))))
    ELSE Omitted

\* the "Repartition par CSP (%)" entry, or nothing
RepartitionCSP(ds, codes) ==
    IF csp_cols \subseteq Columns(ds) /\ ColsTotal(ds, codes, csp_cols) > 0
    THEN ("Repartition par CSP (%)" :> Distribution(ds, codes, csp_cols))
    ELSE Omitted

\* calculer_stats_zone_complet over the rows `codes` of dataset ds
CalculerStatsZoneComplet(ds, codes) ==
    LET cells == Datasets[ds].cells IN
    IF codes = {} THEN ("Population totale" :> 0)
    ELSE ("Population totale" :> SumOver(codes, [c \in codes |-> cells[c].POP_TOTAL]))
      @@ ("Revenu median pondere" :> RevenuPondere(ds, codes))
      @@ RepartitionAge(ds, codes)
      @@ RepartitionSexe(ds, codes)
      @@ RepartitionCSP(ds, codes)

(***************************************************************************)
(* ZoneResolver                                                            *)
(***************************************************************************)
\* a cache key that leaves the radius out
CacheKeyNoRayon(code_iris_centre, env_val_norm, rayon_km) ==
    <<code_iris_centre, env_val_norm>>

\* cache_key = (code_iris_centre, env_val_norm, rayon_km)
CacheKey(code_iris_centre, env_val_norm, rayon_km) ==
    <<code_iris_centre, env_val_norm, rayon_km>>

\* rayon_km = float(env_params[env_val_norm].get("rayon_km", 0))
RayonKm(env_params, env_val_norm) ==
    IF "rayon_km" \in DOMAIN env_params[env_val_norm]
    THEN env_params[env_val_norm]["rayon_km"] ELSE 0

\* the radius test with a strict comparison
RayonInvalidStrict(rayon_km) == rayon_km < 0

\* the "if rayon_km <= 0: raise ValueError" test
RayonInvalid(rayon_km) == rayon_km <= 0

\* a cache test that never finds the key
CacheHasNever(cache, cache_key) == FALSE

\* the "if cache_key in _ZONE_CACHE_KM" test
CacheHas(cache, cache_key) == cache_key \in DOMAIN cache

\* iris_socio_gdf[iris_socio_gdf[iris_code_col].isin(codes)]: the rows of
\* the dataset passed whose code is listed
RowsIsin(iris_socio_gdf, codes) == codes \cap Codes(iris_socio_gdf)

\* what a call gives back: the exception it raised ("None" when it returned),
\* the globals it leaves, the rows and statistics it returned, and whether it
\* answered from the cache / built a buffer and queried the spatial index
Outcome(raised, g, iris_zone, stats_zone, hit, scanned) ==
    [raised |-> raised, globals |-> g, iris_zone |-> iris_zone,
     stats_zone |-> stats_zone, hit |-> hit, scanned |-> scanned]

NoStats == [x \in {} |-> 0]

\* d_km of a candidate: haversine_km between the centre's centroid and the
\* candidate's, both read in _IRIS_CENTROIDS_4326
DKm(g, code_iris_centre, code) ==
    haversine_km(Datasets[g.centroids].cells[code_iris_centre].lat_centroid,
                 Datasets[g.centroids].cells[code_iris_centre].lon_centroid,
                 Datasets[g.centroids].cells[code].lat_centroid,
                 Datasets[g.centroids].cells[code].lon_centroid)

\* candidats_codes: the cells the spatial index returns for the buffer of
\* the centre's geometry
CandidatsCodes(g, code_iris_centre, rayon_km) ==
    SindexQuery(g.sindex,
                Buffer(g.gdf, Geom3857(g.gdf, code_iris_centre), rayon_km))

\* keep_codes: the candidates that pass the distance test
KeepCodes(g, code_iris_centre, rayon_km) ==
    {code \in CandidatsCodes(g, code_iris_centre, rayon_km) :
        WithinSlack(DKm(g, code_iris_centre, code), rayon_km)}

\* radius fields whose mean is the sum of the distances, not divided
RadiusStatsSum(g, code_iris_centre, keep_codes, rayon_km) ==
    ("rayon_max_km" :>
        Round2(Max({DKm(g, code_iris_centre, c) : c \in keep_codes} \cup {0}), 1))
    @@ ("rayon_moy_km" :>
          Round2(SumOver(keep_codes,
                         [c \in keep_codes |-> DKm(g, code_iris_centre, c)]), 1))
    @@ ("rayon_theorique_km" :> rayon_km)

\* rayon_max_km, rayon_moy_km and rayon_theorique_km of the kept distances
RadiusStats(g, code_iris_centre, keep_codes, rayon_km) ==
    (IF keep_codes # {}
     THEN ("rayon_max_km" :>
             Round2(Max({DKm(g, code_iris_centre, c) : c \in keep_codes}), 1))
       @@ ("rayon_moy_km" :>
             Round2(SumOver(keep_codes,
                            [c \in keep_codes |-> DKm(g, code_iris_centre, c)]),
                    Cardinality(keep_codes)))
     ELSE ("rayon_max_km" :> 0) @@ ("rayon_moy_km" :> 0))
    @@ ("rayon_theorique_km" :> rayon_km)

\* a store that starts the cache afresh with the new entry
StoreZoneReplace(g, cache_key, keep_codes, iris_zone, stats_zone) ==
    Outcome(None,
            [g EXCEPT !.cache = (cache_key :> [codes |-> keep_codes, stats |-> stats_zone])],
            iris_zone, stats_zone, FALSE, TRUE)

\* _ZONE_CACHE_KM[cache_key] = (keep_codes, stats_zone); return iris_zone, stats_zone
StoreZone(g, cache_key, keep_codes, iris_zone, stats_zone) ==
    Outcome(None,
            [g EXCEPT !.cache = (cache_key :> [codes |-> keep_codes, stats |-> stats_zone])
                                    @@ g.cache],
            iris_zone, stats_zone, FALSE, TRUE)

\* the rows and statistics of the kept codes, stored and returned
ZoneOfKeepCodes(g, code_iris_centre, env_val_norm, rayon_km, iris_socio_gdf, keep_codes) ==
    StoreZone(g, CacheKey(code_iris_centre, env_val_norm, rayon_km), keep_codes,
              RowsIsin(iris_socio_gdf, keep_codes),
              CalculerStatsZoneComplet(iris_socio_gdf, RowsIsin(iris_socio_gdf, keep_codes))
                  @@ RadiusStats(g, code_iris_centre, keep_codes, rayon_km))

\* the cache-miss part of _get_zone_for_group_distance, from the lookup of
\* the centre in _IRIS_GDF_3857 to the insertion in the cache
ComputeZone(g, code_iris_centre, env_val_norm, rayon_km, iris_socio_gdf) ==
    IF code_iris_centre \notin Codes(g.gdf)
    THEN Outcome("NotFound", g, {}, NoStats, FALSE, FALSE)
    ELSE ZoneOfKeepCodes(g, code_iris_centre, env_val_norm, rayon_km, iris_socio_gdf,
                         KeepCodes(g, code_iris_centre, rayon_km))

\* the part of _get_zone_for_group_distance after the index is prepared and
\* the class normalized
GetZoneNormalized(g, code_iris_centre, env_val_norm, iris_socio_gdf, env_params) ==
    IF env_val_norm \notin DOMAIN env_params
    THEN Outcome("InvalidConfig", g, {}, NoStats, FALSE, FALSE)
    ELSE IF RayonInvalid(RayonKm(env_params, env_val_norm))
    THEN Outcome("InvalidConfig", g, {}, NoStats, FALSE, FALSE)
    ELSE IF CacheHas(g.cache, CacheKey(code_iris_centre, env_val_norm,
                                       RayonKm(env_params, env_val_norm)))
    THEN Outcome(None, g,
                 RowsIsin(iris_socio_gdf,
                          g.cache[CacheKey(code_iris_centre, env_val_norm,
                                           RayonKm(env_params, env_val_norm))].codes),
                 g.cache[CacheKey(code_iris_centre, env_val_norm,
                                  RayonKm(env_params, env_val_norm))].stats,
                 TRUE, FALSE)
    ELSE ComputeZone(g, code_iris_centre, env_val_norm,
                     RayonKm(env_params, env_val_norm), iris_socio_gdf)

\* _get_zone_for_group_distance
GetZoneForGroupDistance(g0, code_iris_centre, env_val, iris_socio_gdf, env_params) ==
    GetZoneNormalized(PrepareIrisIndex(g0, iris_socio_gdf), code_iris_centre,
                      NormalizeEnv(env_val), iris_socio_gdf, env_params)

(***************************************************************************)
(* State machine                                                           *)
(***************************************************************************)
CurrentGlobals ==
    Globals(IRIS_GDF_3857, IRIS_SINDEX, IRIS_CENTROIDS_4326, ZONE_CACHE_KM)

SetGlobals(g) ==
    /\ IRIS_GDF_3857' = g.gdf
    /\ IRIS_SINDEX' = g.sindex
    /\ IRIS_CENTROIDS_4326' = g.centroids
    /\ ZONE_CACHE_KM' = g.cache

NoCall == [kind |-> "none"]
NoRun == [pc |-> "none"]
NoStatsCall == [pc |-> "none"]
NoConc == [iris_socio_gdf |-> None]

\* the tables as the caller loaded them
LoadedFrames == [ds \in DatasetNames |-> Datasets[ds].cells]

Init ==
    /\ IRIS_GDF_3857 = None
    /\ IRIS_SINDEX = None
    /\ IRIS_CENTROIDS_4326 = None
    /\ ZONE_CACHE_KM = [k \in {} |-> 0]
    /\ lastCall = NoCall
    /\ run = NoRun
    /\ firstStored = [k \in {} |-> 0]
    /\ ncalls = 0
    /\ stats_call = NoStatsCall
    /\ iris_frames = LoadedFrames
    /\ conc = NoConc

\* the (centre, class, rayon) a call resolves once its configuration is valid
ConfigValid(env_val, env_params) ==
    /\ NormalizeEnv(env_val) \in DOMAIN env_params
    /\ RayonKm(env_params, NormalizeEnv(env_val)) > 0

Triple(code_iris_centre, env_val, env_params) ==
    <<code_iris_centre, NormalizeEnv(env_val),
      RayonKm(env_params, NormalizeEnv(env_val))>>

\* the history after one call: the first successful call of a triple is kept
Remember(hist, code_iris_centre, env_val, iris_socio_gdf, env_params, out) ==
    IF out.raised = None /\ Triple(code_iris_centre, env_val, env_params) \notin DOMAIN hist
    THEN (Triple(code_iris_centre, env_val, env_params) :>
             [codes |-> out.iris_zone, stats |-> out.stats_zone,
              iris_socio_gdf |-> iris_socio_gdf]) @@ hist
    ELSE hist

(***************************************************************************)
(* ZonePipeline: compute_zones_for_relais                                  *)
(***************************************************************************)
Point(id_point, lat, statut) == [id_point |-> id_point, lat |-> lat, Statut |-> statut]

\* the point files a caller may pass (points_gdf)
PointsChoices ==
    { {Point("p1", 0, urb), Point("p2", 50, Urb_padded), Point("p3", 1500, RUR_padded)},
      {Point("p4", 80, urb), Point("p7", 90, RUR_padded), Point("p5", 6000, urb)},
      {Point("p6", 10000, urb)} }

\* a join that gives a point outside every polygon the first cell
SJoinOrFirst(points_gdf, iris_socio_gdf) ==
    {<<pt, code>> \in points_gdf \X Codes(iris_socio_gdf) :
        \/ /\ Datasets[iris_socio_gdf].cells[code].lo < pt.lat
           /\ pt.lat < Datasets[iris_socio_gdf].cells[code].hi
        \/ /\ code = "c1"
           /\ \A c \in Codes(iris_socio_gdf) :
                 ~(Datasets[iris_socio_gdf].cells[c].lo < pt.lat
                   /\ pt.lat < Datasets[iris_socio_gdf].cells[c].hi)}

\* gpd.sjoin(points, iris, how="left", predicate="within"): one row per
\* (point, cell whose polygon holds the point in its interior)
SJoinWithin(points_gdf, iris_socio_gdf) ==
    {<<pt, code>> \in points_gdf \X Codes(iris_socio_gdf) :
        /\ Datasets[iris_socio_gdf].cells[code].lo < pt.lat
        /\ pt.lat < Datasets[iris_socio_gdf].cells[code].hi}

\* the rows of the left join whose code_iris_point is NaN
SansIris(points_gdf, iris_socio_gdf) ==
    {pt \in points_gdf :
        \A code \in Codes(iris_socio_gdf) : <<pt, code>> \notin SJoinWithin(points_gdf, iris_socio_gdf)}

\* order of Python strings: by code point, then by length
CharRank(ch) ==
    CASE ch = " " -> 32
      [] ch = "B" -> 66
      [] ch = "R" -> 82
      [] ch = "U" -> 85
      [] ch = "b" -> 98
      [] ch = "r" -> 114
      [] ch = "u" -> 117

RECURSIVE StrLess(_, _)
StrLess(a, b) ==
    IF b = <<>> THEN FALSE
    ELSE IF a = <<>> THEN TRUE
    ELSE IF Head(a) # Head(b) THEN CharRank(Head(a)) < CharRank(Head(b))
    ELSE StrLess(Tail(a), Tail(b))

CodeOrder == <<"c1", "c2", "c3", "c4", "c5">>

CodeRank(code) == CHOOSE i \in 1..Len(CodeOrder) : CodeOrder[i] = code

\* order of the groupby keys (code_iris_point, Statut)
GroupLess(k1, k2) ==
    \/ CodeRank(k1[1]) < CodeRank(k2[1])
    \/ k1[1] = k2[1] /\ StrLess(k1[2], k2[2])

RECURSIVE SortedGroups(_)
\* list(points_with_iris.groupby(["code_iris_point", col_env])): keys ascending
SortedGroups(keys) ==
    IF keys = {} THEN <<>>
    ELSE LET k == CHOOSE x \in keys : \A y \in keys \ {x} : GroupLess(x, y)
         IN  <<k>> \o SortedGroups(keys \ {k})

\* the column name flatten_stats gives a key: blanks to "_", brackets removed
FlattenKey(k) ==
    CASE k = "Population totale" -> "Population_totale"
      [] k = "Revenu median pondere" -> "Revenu_median_pondere"
      [] k = "Repartition par age (%)" -> "Repartition_par_age_%"
      [] k = "Repartition par sexe (%)" -> "Repartition_par_sexe_%"
      [] k = "Repartition par CSP (%)" -> "Repartition_par_CSP_%"
      [] k = "Hommes (%)" -> "Hommes_%"
      [] k = "Femmes (%)" -> "Femmes_%"
      [] OTHER -> k

\* the column name of an entry kk of a nested dict under key k: the two
\* flattened names joined by "_"
FlattenNestedKey(k, kk) ==
    CASE k = "Repartition par age (%)" /\ kk = "AGE_0_17"
          -> "Repartition_par_age_%_AGE_0_17"
      [] k = "Repartition par age (%)" /\ kk = "ETUDIANTS_18_24"
          -> "Repartition_par_age_%_ETUDIANTS_18_24"
      [] k = "Repartition par age (%)" /\ kk = "ACTIFS_25_39"
          -> "Repartition_par_age_%_ACTIFS_25_39"
      [] k = "Repartition par age (%)" /\ kk = "AGE_40_64"
          -> "Repartition_par_age_%_AGE_40_64"
      [] k = "Repartition par age (%)" /\ kk = "AGE_65_PLUS"
          -> "Repartition_par_age_%_AGE_65_PLUS"
      [] k = "Repartition par sexe (%)" /\ kk = "Hommes (%)"
          -> "Repartition_par_sexe_%_Hommes_%"
      [] k = "Repartition par sexe (%)" /\ kk = "Femmes (%)"
          -> "Repartition_par_sexe_%_Femmes_%"
      [] k = "Repartition par CSP (%)" /\ kk = "AGRICULTEURS"
          -> "Repartition_par_CSP_%_AGRICULTEURS"
      [] k = "Repartition par CSP (%)" /\ kk = "COMMERCANTS"
          -> "Repartition_par_CSP_%_COMMERCANTS"
      [] k = "Repartition par CSP (%)" /\ kk = "CADRES"
          -> "Repartition_par_CSP_%_CADRES"
      [] k = "Repartition par CSP (%)" /\ kk = "INTERMEDIAIRES"
          -> "Repartition_par_CSP_%_INTERMEDIAIRES"
      [] k = "Repartition par CSP (%)" /\ kk = "EMPLOYES"
          -> "Repartition_par_CSP_%_EMPLOYES"
      [] k = "Repartition par CSP (%)" /\ kk = "OUVRIERS"
          -> "Repartition_par_CSP_%_OUVRIERS"
      [] k = "Repartition par CSP (%)" /\ kk = "RETRAITES"
          -> "Repartition_par_CSP_%_RETRAITES"
      [] k = "Repartition par CSP (%)" /\ kk = "AUTRES_INACTIFS"
          -> "Repartition_par_CSP_%_AUTRES_INACTIFS"

\* the keys of stats whose value is a dict
NestedKeys(stats) ==
    DOMAIN stats \cap {"Repartition par age (%)", "Repartition par sexe (%)",
                       "Repartition par CSP (%)"}

\* flatten_stats: a column per scalar entry and per entry of a nested dict
FlattenStats(stats) ==
    [col \in {FlattenKey(k) : k \in DOMAIN stats \ NestedKeys(stats)} |->
        stats[CHOOSE k \in DOMAIN stats \ NestedKeys(stats) : FlattenKey(k) = col]]
    @@ [col \in {FlattenNestedKey(x[1], x[2]) :
                   x \in UNION {{<<k, kk>> : kk \in DOMAIN stats[k]} : k \in NestedKeys(stats)}} |->
          LET x == CHOOSE y \in UNION {{<<k, kk>> : kk \in DOMAIN stats[k]} :
                                          k \in NestedKeys(stats)} :
                       FlattenNestedKey(y[1], y[2]) = col
          IN  stats[x[1]][x[2]]]

RECURSIVE RunGroups(_, _, _, _, _, _)
RECURSIVE AfterGroup(_, _, _, _, _, _)
\* the "for (code_iris_centre, env_val), group in iterator" loop: the zones
\* resolved so far, until the list ends or a call raises
RunGroups(groups, g, hist, iris_socio_gdf, env_params, zones) ==
    IF groups = <<>>
    THEN [raised |-> None, globals |-> g, hist |-> hist, zones |-> zones,
          failed_group |-> <<>>]
    ELSE AfterGroup(groups, hist, iris_socio_gdf, env_params, zones,
                    GetZoneForGroupDistance(g, Head(groups)[1], Head(groups)[2],
                                            iris_socio_gdf, env_params))

\* one turn of the loop once the call of the head group has ended as `out`
AfterGroup(groups, hist, iris_socio_gdf, env_params, zones, out) ==
    IF out.raised # None
    THEN [raised |-> out.raised, globals |-> out.globals,
          hist |-> Remember(hist, Head(groups)[1], Head(groups)[2], iris_socio_gdf,
                            env_params, out),
          zones |-> zones, failed_group |-> Head(groups)]
    ELSE RunGroups(Tail(groups), out.globals,
                   Remember(hist, Head(groups)[1], Head(groups)[2], iris_socio_gdf,
                            env_params, out),
                   iris_socio_gdf, env_params,
                   zones \cup {[code_iris_centre |-> Head(groups)[1],
                                env |-> Head(groups)[2],
                                iris_zone |-> out.iris_zone,
                                stats_zone |-> out.stats_zone]})

\* rows that take the statistics of any zone of their centre, whatever its class
ZonesDfAnyEnv(points_with_iris, zones) ==
    {[id_point |-> row[1].id_point,
      latitude |-> row[1].lat,
      statut_point |-> row[1].Statut,
      code_iris_centre |-> z.code_iris_centre,
      stats |-> FlattenStats(z.stats_zone)] :
        <<row, z>> \in {<<r, y>> \in points_with_iris \X zones :
                          r[2] = y.code_iris_centre}}

\* zones_df: one row per row of each group
ZonesDf(points_with_iris, zones) ==
    {[id_point |-> row[1].id_point,
      latitude |-> row[1].lat,
      statut_point |-> row[1].Statut,
      code_iris_centre |-> z.code_iris_centre,
      stats |-> FlattenStats(z.stats_zone)] :
        <<row, z>> \in {<<r, y>> \in points_with_iris \X zones :
                          r[2] = y.code_iris_centre /\ r[1].Statut = y.env}}

\* iris_zone_all: the rows of every zone, with the zone's centre and env
IrisZoneAll(zones) ==
    UNION {{[code |-> code, code_iris_centre |-> z.code_iris_centre, env |-> z.env] :
               code \in z.iris_zone} : z \in zones}

\* a count of the rows of the cell in place of the distinct centres
CountsTotalRows(iris_zone_all, code) ==
    Cardinality({x \in iris_zone_all : x.code = code})

\* groupby(CODE_IRIS)["code_iris_centre"].nunique()
CountsTotal(iris_zone_all, code) ==
    Cardinality({r.code_iris_centre : r \in {x \in iris_zone_all : x.code = code}})

\* groupby([CODE_IRIS, "env"])["code_iris_centre"].nunique().unstack(fill_value=0)
EnvCounts(iris_zone_all, code, env) ==
    Cardinality({r.code_iris_centre :
                    r \in {x \in iris_zone_all : x.code = code /\ x.env = env}})

\* the first nb_zones_<env> column, whatever its count
TypeEnvFirst(iris_zone_all, code) ==
    CHOOSE e \in {r.env : r \in iris_zone_all} :
        \A f \in {r.env : r \in iris_zone_all} \ {e} : StrLess(e, f)

\* _type_env: idxmax over the nb_zones_<env> columns, which unstack left in
\* ascending order of env: the first column that holds the maximum
TypeEnv(iris_zone_all, code) ==
    LET envs == {r.env : r \in iris_zone_all}
        best == {e \in envs : \A f \in envs :
                    EnvCounts(iris_zone_all, code, f) <= EnvCounts(iris_zone_all, code, e)}
    IN  CHOOSE e \in best : \A f \in best \ {e} : StrLess(e, f)

\* the view without the nb_zones_total > 0 filter: a row for every cell
IrisAggDfUnfiltered(iris_socio_gdf, iris_zone_all) ==
    [code \in Codes(iris_socio_gdf) |->
        [POP_TOTAL |-> Datasets[iris_socio_gdf].cells[code].POP_TOTAL,
         REVENU_MEDIAN |-> Datasets[iris_socio_gdf].cells[code].REVENU_MEDIAN,
         nb_zones_total |-> CountsTotal(iris_zone_all, code),
         nb_zones |-> [e \in {r.env : r \in iris_zone_all} |->
                          EnvCounts(iris_zone_all, code, e)],
         type_env_iris |-> TypeEnv(iris_zone_all, code)]]

\* iris_agg_df: one row per covered IRIS
IrisAggDf(iris_socio_gdf, iris_zone_all) ==
    LET envs == {r.env : r \in iris_zone_all}
        covered == {code \in Codes(iris_socio_gdf) :
                       CountsTotal(iris_zone_all, code) > 0}
    IN  [code \in covered |->
            [POP_TOTAL |-> Datasets[iris_socio_gdf].cells[code].POP_TOTAL,
             REVENU_MEDIAN |-> Datasets[iris_socio_gdf].cells[code].REVENU_MEDIAN,
             nb_zones_total |-> CountsTotal(iris_zone_all, code),
             nb_zones |-> [e \in envs |-> EnvCounts(iris_zone_all, code, e)],
             type_env_iris |-> TypeEnv(iris_zone_all, code)]]

\* what a run hands back whatever its end: its arguments, the group list,
\* the points without IRIS, and the globals and history it leaves
RunCommon(points_gdf, iris_socio_gdf, env_params, groups, loop) ==
    [points_gdf |-> points_gdf, iris_socio_gdf |-> iris_socio_gdf,
     env_params |-> env_params, groups |-> groups,
     sans_iris |-> SansIris(points_gdf, iris_socio_gdf),
     globals |-> loop.globals, hist |-> loop.hist]

\* global statistics taken over the centre cells only
AggregateCentres(iris_socio_gdf, points_with_iris, zones, iris_agg_df) ==
    [pc |-> "returned", raised |-> None,
     iris_zone_rows |-> zones,
     zones_df |-> ZonesDf(points_with_iris, zones),
     iris_agg_df |-> iris_agg_df,
     stats_globales |->
         CalculerStatsZoneComplet(iris_socio_gdf, {z.code_iris_centre : z \in zones})]

\* the aggregation after the loop, from pd.concat to the return
Aggregate(iris_socio_gdf, points_with_iris, zones, iris_agg_df) ==
    [pc |-> "returned", raised |-> None,
     iris_zone_rows |-> zones,
     zones_df |-> ZonesDf(points_with_iris, zones),
     iris_agg_df |-> iris_agg_df,
     stats_globales |-> CalculerStatsZoneComplet(iris_socio_gdf, DOMAIN iris_agg_df)]

\* the end of compute_zones_for_relais once the loop has ended as `loop`
AfterLoop(points_gdf, iris_socio_gdf, env_params, points_with_iris, groups, loop) ==
    RunCommon(points_gdf, iris_socio_gdf, env_params, groups, loop) @@
    (IF loop.raised # None
     THEN [pc |-> "raised", raised |-> loop.raised, failed_group |-> loop.failed_group]
     ELSE IF loop.zones = {}
     \* pd.concat of an empty list raises ValueError
     THEN [pc |-> "raised", raised |-> "NoObjectsToConcatenate", failed_group |-> <<>>]
     ELSE Aggregate(iris_socio_gdf, points_with_iris, loop.zones,
                    IrisAggDf(iris_socio_gdf, IrisZoneAll(loop.zones))))

\* compute_zones_for_relais from the grouping on
AfterJoin(g, hist, points_gdf, iris_socio_gdf, env_params, points_with_iris, groups) ==
    AfterLoop(points_gdf, iris_socio_gdf, env_params, points_with_iris, groups,
              RunGroups(groups, g, hist, iris_socio_gdf, env_params, {}))

\* the groupby keys of the joined rows
GroupKeys(points_with_iris) == {<<row[2], row[1].Statut>> : row \in points_with_iris}

\* compute_zones_for_relais: the globals it leaves and what it returns, or
\* the exception it raises
ComputeZonesForRelais(g, hist, points_gdf, iris_socio_gdf, env_params) ==
    AfterJoin(g, hist, points_gdf, iris_socio_gdf, env_params,
              SJoinWithin(points_gdf, iris_socio_gdf),
              SortedGroups(GroupKeys(SJoinWithin(points_gdf, iris_socio_gdf))))

\* the loop's two column writes made in the table the caller passed
TagZoneRowsInPlace(frames, iris_socio_gdf, res) ==
    IF "iris_zone_rows" \in DOMAIN res
    THEN [ds \in DOMAIN frames |->
            IF ds = iris_socio_gdf
            THEN [code \in DOMAIN frames[ds] |->
                     ("code_iris_centre" :> {z.code_iris_centre : z \in res.iris_zone_rows})
                     @@ ("env" :> {z.env : z \in res.iris_zone_rows})
                     @@ frames[ds][code]]
            ELSE frames[ds]]
    ELSE frames

\* what the loop's writes leave of the caller's tables: iris_zone is a copy
\* of the rows selected by isin (itself a copy), and code_iris_centre and
\* env are written in that copy
TagZoneRows(frames, iris_socio_gdf, res) == frames

\* one direct call of _get_zone_for_group_distance
ResolveZone(code_iris_centre, env_val, iris_socio_gdf, env_params) ==
    /\ ncalls < MaxCalls
    /\ \E out \in {GetZoneForGroupDistance(CurrentGlobals, code_iris_centre, env_val,
                                             iris_socio_gdf, env_params)} :
           /\ SetGlobals(out.globals)
           /\ lastCall' = [kind |-> "resolve",
                           code_iris_centre |-> code_iris_centre,
                           env_val |-> env_val,
                           iris_socio_gdf |-> iris_socio_gdf,
                           env_params |-> env_params,
                           indexBefore |-> IRIS_GDF_3857,
                           seenBefore |->
                               /\ ConfigValid(env_val, env_params)
                               /\ Triple(code_iris_centre, env_val, env_params)
                                      \in DOMAIN firstStored,
                           raised |-> out.raised,
                           iris_zone |-> out.iris_zone,
                           stats_zone |-> out.stats_zone,
                           hit |-> out.hit,
                           scanned |-> out.scanned]
           /\ firstStored' = Remember(firstStored, code_iris_centre, env_val,
                                      iris_socio_gdf, env_params, out)
    /\ ncalls' = ncalls + 1
    /\ run' = NoRun
    /\ UNCHANGED <<stats_call, iris_frames, conc>>

\* one run of compute_zones_for_relais
RunPipeline(points_gdf, iris_socio_gdf, env_params) ==
    /\ ncalls < MaxCalls
    /\ \E res \in {ComputeZonesForRelais(CurrentGlobals, firstStored, points_gdf,
                                           iris_socio_gdf, env_params)} :
           /\ SetGlobals(res.globals)
           /\ firstStored' = res.hist
           /\ run' = [k \in DOMAIN res \ {"globals", "hist"} |-> res[k]]
           /\ iris_frames' = TagZoneRows(iris_frames, iris_socio_gdf, res)
    /\ ncalls' = ncalls + 1
    /\ lastCall' = NoCall
    /\ UNCHANGED <<stats_call, conc>>

Next ==
    \/ \E c \in CentreCodes, e \in EnvLabels, ds \in DatasetNames,
          p \in EnvParamsChoices : ResolveZone(c, e, ds, p)
    \/ \E pts \in PointsChoices, ds \in DatasetNames,
          p \in EnvParamsChoices : RunPipeline(pts, ds, p)

Spec == Init /\ [][Next]_vars

(***************************************************************************)
(* StatsAggregator called on its own: calculer_stats_zone_complet is a     *)
(* function of the rows it is given                                        *)
(***************************************************************************)
\* the tables whose rows a caller aggregates
StatsDatasetNames == DOMAIN Datasets

\* a caller holds a table and a selection of its rows (df_zone)
InitStats ==
    /\ IRIS_GDF_3857 = None
    /\ IRIS_SINDEX = None
    /\ IRIS_CENTROIDS_4326 = None
    /\ ZONE_CACHE_KM = [k \in {} |-> 0]
    /\ lastCall = NoCall
    /\ run = NoRun
    /\ firstStored = [k \in {} |-> 0]
    /\ ncalls = 0
    /\ iris_frames = LoadedFrames
    /\ conc = NoConc
    /\ \E ds \in StatsDatasetNames : \E rows \in SUBSET Codes(ds) :
          stats_call = [pc |-> "start", iris_socio_gdf |-> ds, df_zone |-> rows]

\* calculer_stats_zone_complet(df_zone)
CallStats ==
    /\ stats_call.pc = "start"
    /\ stats_call' = [pc |-> "done",
                      iris_socio_gdf |-> stats_call.iris_socio_gdf,
                      df_zone |-> stats_call.df_zone,
                      resultats |-> CalculerStatsZoneComplet(stats_call.iris_socio_gdf,
                                                             stats_call.df_zone)]
    /\ UNCHANGED <<IRIS_GDF_3857, IRIS_SINDEX, IRIS_CENTROIDS_4326, ZONE_CACHE_KM,
                   lastCall, run, firstStored, ncalls, iris_frames, conc>>

NextStats == CallStats

SpecStats == InitStats /\ [][NextStats]_vars

(***************************************************************************)
(* Calls of _get_zone_for_group_distance running in threads of one         *)
(* process (a Streamlit host runs each session's script in its own         *)
(* thread): the module has no lock, so the interpreter may switch threads  *)
(* between any two statements of _prepare_iris_index                       *)
(***************************************************************************)
Threads == {1, 2}

\* every thread passes the one table the host loaded
InitConc ==
    /\ IRIS_GDF_3857 = None
    /\ IRIS_SINDEX = None
    /\ IRIS_CENTROIDS_4326 = None
    /\ ZONE_CACHE_KM = [k \in {} |-> 0]
    /\ lastCall = NoCall
    /\ run = NoRun
    /\ firstStored = [k \in {} |-> 0]
    /\ ncalls = 0
    /\ stats_call = NoStatsCall
    /\ iris_frames = LoadedFrames
    /\ \E ds \in DatasetNames :
          conc = [iris_socio_gdf |-> ds, thread |-> [t \in Threads |-> [pc |-> "idle"]]]

\* a thread at a statement, with the arguments of its call
AtStatement(th, pc) ==
    [pc |-> pc, code_iris_centre |-> th.code_iris_centre, env_val |-> th.env_val,
     env_params |-> th.env_params]

\* everything but the index globals, the call count and the threads
ConcFrame == <<ZONE_CACHE_KM, lastCall, run, firstStored, stats_call, iris_frames>>

\* the part of _get_zone_for_group_distance after _prepare_iris_index
\* returned, on globals another thread may still be assigning: reading
\* .loc of _IRIS_CENTROIDS_4326 or .query of _IRIS_SINDEX while it is None
\* raises AttributeError
GetZoneOnGlobals(g, code_iris_centre, env_val_norm, iris_socio_gdf, env_params) ==
    IF env_val_norm \notin DOMAIN env_params
    THEN GetZoneNormalized(g, code_iris_centre, env_val_norm, iris_socio_gdf, env_params)
    ELSE IF RayonInvalid(RayonKm(env_params, env_val_norm))
    THEN GetZoneNormalized(g, code_iris_centre, env_val_norm, iris_socio_gdf, env_params)
    ELSE IF CacheHas(g.cache, CacheKey(code_iris_centre, env_val_norm,
                                       RayonKm(env_params, env_val_norm)))
    THEN GetZoneNormalized(g, code_iris_centre, env_val_norm, iris_socio_gdf, env_params)
    ELSE IF code_iris_centre \notin Codes(g.gdf)
    THEN GetZoneNormalized(g, code_iris_centre, env_val_norm, iris_socio_gdf, env_params)
    ELSE IF g.centroids = None
    THEN Outcome("AttributeError", g, {}, NoStats, FALSE, FALSE)
    ELSE IF g.sindex = None
    THEN Outcome("AttributeError", g, {}, NoStats, FALSE, FALSE)
    ELSE GetZoneNormalized(g, code_iris_centre, env_val_norm, iris_socio_gdf, env_params)

\* a thread calls _get_zone_for_group_distance(code_iris_centre, env_val, ...)
ThreadCall(t, code_iris_centre, env_val, env_params) ==
    /\ ncalls < MaxCalls
    /\ conc.thread[t].pc \in {"idle", "done"}
    /\ conc' = [conc EXCEPT !.thread[t] =
                   [pc |-> "prepare", code_iris_centre |-> code_iris_centre,
                    env_val |-> env_val, env_params |-> env_params]]
    /\ ncalls' = ncalls + 1
    /\ UNCHANGED <<IRIS_GDF_3857, IRIS_SINDEX, IRIS_CENTROIDS_4326>>
    /\ UNCHANGED ConcFrame

\* _prepare_iris_index: if _IRIS_GDF_3857 is not None: return
ThreadPrepareTest(t) ==
    /\ conc.thread[t].pc = "prepare"
    /\ conc' = [conc EXCEPT !.thread[t] =
                   AtStatement(@, IF IRIS_GDF_3857 # None THEN "resolve" ELSE "set_gdf")]
    /\ UNCHANGED <<IRIS_GDF_3857, IRIS_SINDEX, IRIS_CENTROIDS_4326, ncalls>>
    /\ UNCHANGED ConcFrame

\* _IRIS_GDF_3857 = iris_socio_gdf.to_crs(3857).copy()
ThreadSetGdf(t) ==
    /\ conc.thread[t].pc = "set_gdf"
    /\ IRIS_GDF_3857' = conc.iris_socio_gdf
    /\ conc' = [conc EXCEPT !.thread[t] = AtStatement(@, "set_sindex")]
    /\ UNCHANGED <<IRIS_SINDEX, IRIS_CENTROIDS_4326, ncalls>>
    /\ UNCHANGED ConcFrame

\* _IRIS_SINDEX = iris_3857.sindex
ThreadSetSindex(t) ==
    /\ conc.thread[t].pc = "set_sindex"
    /\ IRIS_SINDEX' = conc.iris_socio_gdf
    /\ conc' = [conc EXCEPT !.thread[t] = AtStatement(@, "set_centroids")]
    /\ UNCHANGED <<IRIS_GDF_3857, IRIS_CENTROIDS_4326, ncalls>>
    /\ UNCHANGED ConcFrame

\* _IRIS_CENTROIDS_4326 = pd.DataFrame({...}).set_index(iris_code_col)
ThreadSetCentroids(t) ==
    /\ conc.thread[t].pc = "set_centroids"
    /\ IRIS_CENTROIDS_4326' = conc.iris_socio_gdf
    /\ conc' = [conc EXCEPT !.thread[t] = AtStatement(@, "resolve")]
    /\ UNCHANGED <<IRIS_GDF_3857, IRIS_SINDEX, ncalls>>
    /\ UNCHANGED ConcFrame

\* the rest of the call, from the normalization of the class to the return
\* or the exception
ThreadResolve(t) ==
    /\ conc.thread[t].pc = "resolve"
    /\ \E out \in {GetZoneOnGlobals(CurrentGlobals, conc.thread[t].code_iris_centre,
                                     NormalizeEnv(conc.thread[t].env_val),
                                     conc.iris_socio_gdf, conc.thread[t].env_params)} :
           /\ SetGlobals(out.globals)
           /\ conc' = [conc EXCEPT !.thread[t] =
                          AtStatement(@, "done") @@
                          [raised |-> out.raised, iris_zone |-> out.iris_zone,
                           stats_zone |-> out.stats_zone, hit |-> out.hit,
                           index_read |-> [gdf |-> IRIS_GDF_3857,
                                           sindex |-> IRIS_SINDEX,
                                           centroids |-> IRIS_CENTROIDS_4326]]]
    /\ UNCHANGED <<lastCall, run, firstStored, stats_call, iris_frames, ncalls>>

NextConc ==
    \E t \in Threads :
        \/ \E c \in CentreCodes, e \in {urb, RUR_padded}, p \in EnvParamsChoices :
              ThreadCall(t, c, e, p)
        \/ ThreadPrepareTest(t)
        \/ ThreadSetGdf(t)
        \/ ThreadSetSindex(t)
        \/ ThreadSetCentroids(t)
        \/ ThreadResolve(t)

SpecConc == InitConc /\ [][NextConc]_vars

(***************************************************************************)
(* Properties                                                              *)
(***************************************************************************)
\* the last call was a _get_zone_for_group_distance call that returned
Returned == lastCall.kind = "resolve" /\ lastCall.raised = None

\* distance of two cells' centroids in the cell set passed to the last call
CentroidDistance(code1, code2) ==
    LET cells == Datasets[lastCall.iris_socio_gdf].cells
    IN  haversine_km(cells[code1].lat_centroid, cells[code1].lon_centroid,
                     cells[code2].lat_centroid, cells[code2].lon_centroid)

\* the radius the last call's class has in its env_params (the call returned)
CallRayon == lastCall.stats_zone["rayon_theorique_km"]

\* C1: whenever a resolution returns and the centre cell is in the cell set
\* passed to the call, the centre cell is among the returned member cells,
\* on a first computation and on a cache hit alike.
C1_CentreInZone ==
    (Returned /\ lastCall.code_iris_centre \in Codes(lastCall.iris_socio_gdf))
        => lastCall.code_iris_centre \in lastCall.iris_zone

\* C1 witness: a cache hit that returned a zone holding its centre
C1_Witness ==
    /\ Returned
    /\ lastCall.hit
    /\ lastCall.code_iris_centre \in lastCall.iris_zone

\* C2: every cell of the cell set passed to the call whose centroid lies
\* within rayon x 1.05 of the centre's centroid is a member of the returned
\* zone.
C2_ZoneComplete ==
    (Returned /\ lastCall.code_iris_centre \in Codes(lastCall.iris_socio_gdf))
        => \A code \in Codes(lastCall.iris_socio_gdf) :
              100 * CentroidDistance(lastCall.code_iris_centre, code) <= 105 * CallRayon
                  => code \in lastCall.iris_zone

\* C3: every returned member cell has its centroid within rayon x 1.05 of
\* the centre's centroid.
C3_ZoneSound ==
    (Returned /\ lastCall.code_iris_centre \in Codes(lastCall.iris_socio_gdf))
        => \A code \in lastCall.iris_zone :
              100 * CentroidDistance(lastCall.code_iris_centre, code) <= 105 * CallRayon

\* C4: a run in which the resolution of a group fails on its configuration
\* after another group was resolved does not abort: it returns.
C4_GroupFailureNotFatal ==
    (run.pc = "raised" /\ run.raised = "InvalidConfig")
        => run.failed_group = run.groups[1]

RadiusKeys == {"rayon_max_km", "rayon_moy_km", "rayon_theorique_km"}

\* C5: the statistics a resolution returns, the three radius fields aside,
\* are calculer_stats_zone_complet of the member rows the same call returns.
C5_StatsOfReturnedRows ==
    Returned =>
        [k \in DOMAIN lastCall.stats_zone \ RadiusKeys |-> lastCall.stats_zone[k]]
            = CalculerStatsZoneComplet(lastCall.iris_socio_gdf, lastCall.iris_zone)

\* the (centre, normalized class, rayon) of the last call
CallTriple ==
    Triple(lastCall.code_iris_centre, lastCall.env_val, lastCall.env_params)

C7_CacheKeyIsTriple ==
    Returned =>
        /\ CallRayon =
              lastCall.env_params[NormalizeEnv(lastCall.env_val)]["rayon_km"]
        /\ lastCall.hit => lastCall.seenBefore
        /\ ~lastCall.seenBefore => lastCall.scanned

\* C7 witness: a centre and class resolved before under another radius are
\* resolved anew
C7_Witness ==
    /\ Returned
    /\ ~lastCall.seenBefore
    /\ lastCall.scanned
    /\ \E t \in DOMAIN firstStored :
          /\ t[1] = lastCall.code_iris_centre
          /\ t[2] = NormalizeEnv(lastCall.env_val)
          /\ t[3] # CallRayon

\* the call's configuration is invalid: no entry for the normalized class,
\* or an entry without a radius, or a radius <= 0
BadConfig ==
    LET n == NormalizeEnv(lastCall.env_val)
        p == lastCall.env_params
    IN  \/ n \notin DOMAIN p
        \/ "rayon_km" \notin DOMAIN p[n]
        \/ p[n]["rayon_km"] <= 0

\* C8: a call raises the configuration error exactly when its configuration
\* is invalid, and then returns no zone.
C8_ConfigError ==
    lastCall.kind = "resolve" =>
        /\ lastCall.raised = "InvalidConfig" <=> BadConfig
        /\ BadConfig => lastCall.iris_zone = {} /\ lastCall.stats_zone = NoStats

\* C8 witness: an entry without "rayon_km" raised the configuration error
C8_Witness ==
    /\ lastCall.kind = "resolve"
    /\ lastCall.raised = "InvalidConfig"
    /\ NormalizeEnv(lastCall.env_val) \in DOMAIN lastCall.env_params
    /\ "rayon_km" \notin DOMAIN lastCall.env_params[NormalizeEnv(lastCall.env_val)]

\* the label s without its leading and trailing blanks (a set of one label)
Trims(s) ==
    {SubSeq(s, ij[1], ij[2]) :
        ij \in {x \in (1..(Len(s) + 1)) \X (0..Len(s)) :
                  /\ x[2] >= x[1] - 1
                  /\ \A n \in 1..(x[1] - 1) : s[n] = " "
                  /\ \A n \in (x[2] + 1)..Len(s) : s[n] = " "
                  /\ x[2] >= x[1] => (s[x[1]] # " " /\ s[x[2]] # " ")}}

SameLetter(a, b) ==
    \/ a = b
    \/ {a, b} \in {{"u", "U"}, {"r", "R"}, {"b", "B"}}

\* the labels a and b differ only by letter case or surrounding blanks
SameClass(a, b) ==
    \E ta \in Trims(a), tb \in Trims(b) :
        /\ Len(ta) = Len(tb)
        /\ \A n \in 1..Len(ta) : SameLetter(ta[n], tb[n])

\* the label is lower-case and has no surrounding blank
IsNormalForm(a) ==
    /\ a \in Trims(a)
    /\ \A n \in 1..Len(a) : a[n] \notin {"U", "R", "B"}

PositiveRayon(entry) == "rayon_km" \in DOMAIN entry /\ entry["rayon_km"] > 0

\* C9 as claimed: a call whose class differs only by case or surrounding
\* blanks from a key of env_params that has a positive radius finds that
\* radius.
C9_KeysCaseInsensitive ==
    lastCall.kind = "resolve" =>
        \A k \in DOMAIN lastCall.env_params :
            (SameClass(k, lastCall.env_val) /\ PositiveRayon(lastCall.env_params[k]))
                => /\ lastCall.raised # "InvalidConfig"
                   /\ lastCall.raised = None => CallRayon = lastCall.env_params[k]["rayon_km"]

\* C9 amended: the label of the point is normalized, the keys are not: a
\* call finds the radius of a key that its class matches up to case and
\* surrounding blanks when that key is itself trimmed and lower-case, and a
\* call whose class matches no such key raises the configuration error.
C9_PointLabelNormalized ==
    lastCall.kind = "resolve" =>
        /\ \A k \in DOMAIN lastCall.env_params :
              (/\ SameClass(k, lastCall.env_val)
               /\ IsNormalForm(k)
               /\ PositiveRayon(lastCall.env_params[k]))
                  => /\ lastCall.raised # "InvalidConfig"
                     /\ lastCall.raised = None
                            => CallRayon = lastCall.env_params[k]["rayon_km"]
        /\ (\A k \in DOMAIN lastCall.env_params :
               ~(SameClass(k, lastCall.env_val) /\ IsNormalForm(k)))
              => lastCall.raised = "InvalidConfig"

\* C9 witness: a padded, capitalized point label found the radius of the
\* lower-case key
C9_Witness ==
    /\ Returned
    /\ lastCall.env_val = Urb_padded
    /\ urb \in DOMAIN lastCall.env_params
    /\ CallRayon = lastCall.env_params[urb]["rayon_km"]

\* C10: a call whose centre is not in the cell set passed to it, and whose
\* configuration is valid, raises the not-found error.
C10_CentreNotFound ==
    (/\ lastCall.kind = "resolve"
     /\ ~BadConfig
     /\ lastCall.code_iris_centre \notin Codes(lastCall.iris_socio_gdf))
        => lastCall.raised = "NotFound"

\* C11: a call that raises the configuration error did no spatial work
\* before raising: it built no index (the three index globals are as the
\* call found them) and built no buffer, queried no index.
C11_NoSpatialWorkBeforeConfigError ==
    (lastCall.kind = "resolve" /\ lastCall.raised = "InvalidConfig") =>
        /\ ~lastCall.scanned
        /\ IRIS_GDF_3857 = lastCall.indexBefore
        /\ IRIS_SINDEX = lastCall.indexBefore
        /\ IRIS_CENTROIDS_4326 = lastCall.indexBefore

\* the last top-level call was a compute_zones_for_relais run that returned
RunReturned == run.pc = "returned"

\* the zones resolved in the run whose member rows hold the cell
ZonesHolding(code) == {z \in run.iris_zone_rows : code \in z.iris_zone}

C13_TotalIsDistinctZones ==
    RunReturned =>
        \A code \in DOMAIN run.iris_agg_df :
            /\ run.iris_agg_df[code].nb_zones_total
                  = Cardinality({<<z.code_iris_centre, NormalizeEnv(z.env)>> :
                                    z \in ZonesHolding(code)})
            /\ run.iris_agg_df[code].nb_zones_total
                  = SumOver(DOMAIN run.iris_agg_df[code].nb_zones,
                            run.iris_agg_df[code].nb_zones)

\* the cells held by at least one zone resolved in the run
CoveredCells == UNION {z.iris_zone : z \in run.iris_zone_rows}

\* C14: the per-cell view has a row for exactly the cells that a zone
\* resolved in the run holds, one row per cell (rows are keyed by the cell
\* code), and every row has nb_zones_total >= 1.
C14_ViewIsCoveredCells ==
    RunReturned =>
        /\ DOMAIN run.iris_agg_df = CoveredCells
        /\ \A code \in DOMAIN run.iris_agg_df :
              run.iris_agg_df[code].nb_zones_total >= 1

\* C14 witness: a run whose view has rows and leaves a cell of the cell set out
C14_Witness ==
    /\ RunReturned
    /\ DOMAIN run.iris_agg_df # {}
    /\ \E code \in Codes(run.iris_socio_gdf) :
          /\ code \notin DOMAIN run.iris_agg_df
          /\ \A z \in run.iris_zone_rows : code \notin z.iris_zone

\* the per-class coverage count of a cell for the class label e: the
\* distinct centres that have a zone of that label holding the cell
ClassCount(code, e) ==
    Cardinality({z.code_iris_centre : z \in {y \in ZonesHolding(code) : y.env = e}})

\* C15: type_env_iris of a row is a class of the run whose per-class
\* coverage count for the cell is >= 1 and is the largest of all classes.
C15_DominantClass ==
    RunReturned =>
        \A code \in DOMAIN run.iris_agg_df :
            /\ run.iris_agg_df[code].type_env_iris \in {z.env : z \in run.iris_zone_rows}
            /\ ClassCount(code, run.iris_agg_df[code].type_env_iris) >= 1
            /\ \A e \in {z.env : z \in run.iris_zone_rows} :
                  /\ run.iris_agg_df[code].nb_zones[e] = ClassCount(code, e)
                  /\ ClassCount(code, e)
                        <= ClassCount(code, run.iris_agg_df[code].type_env_iris)

\* C15 witness: the dominant class of a cell is not the first column: a
\* class that sorts before it has a smaller count
C15_Witness ==
    /\ RunReturned
    /\ \E code \in DOMAIN run.iris_agg_df :
          \E e \in DOMAIN run.iris_agg_df[code].nb_zones :
              /\ StrLess(e, run.iris_agg_df[code].type_env_iris)
              /\ run.iris_agg_df[code].nb_zones[e]
                    < run.iris_agg_df[code].nb_zones[run.iris_agg_df[code].type_env_iris]

\* the cells of the run's cell set whose polygon holds the point
CellsOfPoint(pt) ==
    {code \in Codes(run.iris_socio_gdf) :
        /\ Datasets[run.iris_socio_gdf].cells[code].lo < pt.lat
        /\ pt.lat < Datasets[run.iris_socio_gdf].cells[code].hi}

\* C16: the per-point view has exactly one row for each input point that
\* lies in a cell.
C16_OneRowPerAssignedPoint ==
    RunReturned =>
        \A pt \in run.points_gdf :
            CellsOfPoint(pt) # {}
                => Cardinality({r \in run.zones_df : r.id_point = pt.id_point}) = 1

\* C17: two rows of the per-point view whose points were assigned the same
\* cell and carry the same class (up to case and surrounding blanks) have
\* identical zone statistics, and the centre cell id of a row is the cell
\* that holds its point.
C17_SameGroupSameStats ==
    RunReturned =>
        /\ \A r1, r2 \in run.zones_df :
              (/\ r1.code_iris_centre = r2.code_iris_centre
               /\ NormalizeEnv(r1.statut_point) = NormalizeEnv(r2.statut_point))
                  => r1.stats = r2.stats
        /\ \A r \in run.zones_df :
              \E pt \in run.points_gdf :
                  /\ pt.id_point = r.id_point
                  /\ r.code_iris_centre \in CellsOfPoint(pt)

\* C17 witness: two different points of one cell whose labels differ in
\* case and blanks only, with the same statistics of a zone of several cells
C17_Witness ==
    /\ RunReturned
    /\ \E r1, r2 \in run.zones_df :
          /\ r1.id_point # r2.id_point
          /\ r1.code_iris_centre = r2.code_iris_centre
          /\ r1.statut_point # r2.statut_point
          /\ NormalizeEnv(r1.statut_point) = NormalizeEnv(r2.statut_point)
          /\ r1.stats = r2.stats
          /\ r1.stats["Population_totale"] > 0

\* the points of the run that no cell of its cell set holds
Orphans == {pt \in run.points_gdf : CellsOfPoint(pt) = {}}

\* the groups of the run, as a set
GroupSet == {run.groups[i] : i \in 1..Len(run.groups)}

\* C18: the points outside every cell polygon are the ones reported without
\* IRIS; no group comes from them and every other point is in a group; a run
\* that returns has no per-point row for them, a row for every other point
\* and zones for exactly the groups; a run raises without a failing group
\* only when every point is an orphan.
C18_OrphansDropped ==
    run.pc # "none" =>
        /\ run.sans_iris = Orphans
        /\ GroupSet = {<<code, pt.Statut>> :
                          <<pt, code>> \in {x \in run.points_gdf \X Codes(run.iris_socio_gdf) :
                                              x[2] \in CellsOfPoint(x[1])}}
        /\ RunReturned =>
              /\ \A r \in run.zones_df : \A pt \in Orphans : r.id_point # pt.id_point
              /\ \A pt \in run.points_gdf \ Orphans :
                    \E r \in run.zones_df : r.id_point = pt.id_point
              /\ {<<z.code_iris_centre, z.env>> : z \in run.iris_zone_rows} = GroupSet
        /\ (run.pc = "raised" /\ run.failed_group = <<>>) => run.points_gdf = Orphans

\* C18 witness: a run with an orphan that returned rows for its other points
C18_Witness ==
    /\ RunReturned
    /\ Orphans # {}
    /\ run.zones_df # {}
    /\ run.sans_iris = Orphans

\* C19: stats_globales is calculer_stats_zone_complet of the cells of the
\* per-cell view, which are the cells the zones of the run hold, each taken
\* once: its population is the sum of the view's POP_TOTAL column.
C19_GlobalStats ==
    RunReturned =>
        /\ run.stats_globales
              = CalculerStatsZoneComplet(run.iris_socio_gdf, CoveredCells)
        /\ run.stats_globales["Population totale"]
              = SumOver(DOMAIN run.iris_agg_df,
                        [code \in DOMAIN run.iris_agg_df |->
                            run.iris_agg_df[code].POP_TOTAL])

\* C19 witness: a cell held by several zones, and cells that are no centre
C19_Witness ==
    /\ RunReturned
    /\ \E code \in DOMAIN run.iris_agg_df : Cardinality(ZonesHolding(code)) > 1
    /\ \E code \in DOMAIN run.iris_agg_df :
          \A z \in run.iris_zone_rows : z.code_iris_centre # code
    /\ run.stats_globales["Population totale"] > 0

\* the rows of the direct call whose income is present
IncomeRows ==
    {c \in stats_call.df_zone :
        Datasets[stats_call.iris_socio_gdf].cells[c].REVENU_MEDIAN # <<>>}

\* the summed population of a set of rows of the direct call
PopOf(rows) ==
    SumOver(rows, [c \in rows |-> Datasets[stats_call.iris_socio_gdf].cells[c].POP_TOTAL])

\* population x income summed over the rows whose income is present
IncomeTimesPop ==
    SumOver(IncomeRows,
            [c \in IncomeRows |->
                Datasets[stats_call.iris_socio_gdf].cells[c].POP_TOTAL
                    * Datasets[stats_call.iris_socio_gdf].cells[c].REVENU_MEDIAN[1]])

C20_WitnessNone ==
    /\ stats_call.pc = "done"
    /\ stats_call.df_zone # {}
    /\ IncomeRows = {}
    /\ stats_call.resultats["Revenu median pondere"] = <<>>

\* a direct call of calculer_stats_zone_complet on a non-empty selection ended
StatsDone == stats_call.pc = "done" /\ stats_call.df_zone # {}

\* the columns of each distribution and the key it is reported under
DistColumns ==
    ("Repartition par age (%)" :> age_cols)
 @@ ("Repartition par sexe (%)" :> sexe_cols)
 @@ ("Repartition par CSP (%)" :> csp_cols)

\* the total of one column over the rows of the direct call
OwnColTotal(col) ==
    SumOver(stats_call.df_zone,
            [c \in stats_call.df_zone |->
                Datasets[stats_call.iris_socio_gdf].cells[c][col]])

\* the summed total of the columns of one distribution, 0 when the table
\* lacks one of them
OwnTotal(key) ==
    IF DistColumns[key] \subseteq Columns(stats_call.iris_socio_gdf)
    THEN SumOver(DistColumns[key], [col \in DistColumns[key] |-> OwnColTotal(col)])
    ELSE 0

\* the sum of the percentages of a reported distribution, in tenths of a percent
DistSum(d) == SumOver(DOMAIN d, d)

\* C21: for a non-empty selection of rows and each distribution whose
\* columns exist with a nonzero total, the reported percentages sum to 100
\* within 0.05 x the number of categories; when the five age totals are
\* equal, every age bracket is exactly 20.0.
C21_PercentagesSum ==
    StatsDone =>
        /\ \A key \in DOMAIN DistColumns :
              OwnTotal(key) > 0 =>
                  /\ key \in DOMAIN stats_call.resultats
                  /\ 2 * Abs(DistSum(stats_call.resultats[key]) - 1000)
                        <= Cardinality(DOMAIN stats_call.resultats[key])
        /\ (/\ OwnTotal("Repartition par age (%)") > 0
            /\ \A a, b \in age_cols : OwnColTotal(a) = OwnColTotal(b))
              => \A a \in age_cols :
                    stats_call.resultats["Repartition par age (%)"][a] = 200

\* C21 witness: percentages that rounding keeps from summing to exactly 100
C21_Witness ==
    /\ StatsDone
    /\ \E key \in DOMAIN DistColumns :
          /\ OwnTotal(key) > 0
          /\ DistSum(stats_call.resultats[key]) # 1000
          /\ 2 * Abs(DistSum(stats_call.resultats[key]) - 1000)
                <= Cardinality(DOMAIN stats_call.resultats[key])

\* C21 second case: equal age totals give 20.0 for every bracket
C21_WitnessEqual ==
    /\ StatsDone
    /\ OwnTotal("Repartition par age (%)") > 0
    /\ \A a, b \in age_cols : OwnColTotal(a) = OwnColTotal(b)
    /\ \A a \in age_cols : stats_call.resultats["Repartition par age (%)"][a] = 200

\* the category of the reported distribution that holds the column's share
ReportedName(col) ==
    CASE col = "HOMMES" -> "Hommes (%)"
      [] col = "FEMMES" -> "Femmes (%)"
      [] OTHER -> col

\* C22: each of the three distributions is reported exactly when its own
\* columns all exist and their total is > 0, and its values are then the
\* shares of its own columns rounded to 1 decimal: neither its presence nor
\* its values depend on the other two.
C22_DistributionsIndependent ==
    StatsDone =>
        \A key \in DOMAIN DistColumns :
            /\ key \in DOMAIN stats_call.resultats <=> OwnTotal(key) > 0
            /\ OwnTotal(key) > 0 =>
                  /\ DOMAIN stats_call.resultats[key]
                        = {ReportedName(col) : col \in DistColumns[key]}
                  /\ \A col \in DistColumns[key] :
                        2 * Abs(1000 * OwnColTotal(col)
                                 - stats_call.resultats[key][ReportedName(col)]
                                       * OwnTotal(key))
                            <= OwnTotal(key)

\* C22 witness: the age distribution is left out for a total of 0 while
\* the sex distribution of the same rows is reported
C22_Witness ==
    /\ StatsDone
    /\ age_cols \subseteq Columns(stats_call.iris_socio_gdf)
    /\ "Repartition par age (%)" \notin DOMAIN stats_call.resultats
    /\ "Repartition par sexe (%)" \in DOMAIN stats_call.resultats
    /\ "Repartition par CSP (%)" \in DOMAIN stats_call.resultats

\* C22 second case: a table without the FEMMES and CADRES columns reports
\* its age distribution alone
C22_WitnessMissingColumn ==
    /\ StatsDone
    /\ ~(sexe_cols \subseteq Columns(stats_call.iris_socio_gdf))
    /\ ~(csp_cols \subseteq Columns(stats_call.iris_socio_gdf))
    /\ DOMAIN stats_call.resultats \cap DOMAIN DistColumns = {"Repartition par age (%)"}

\* C27 as claimed: the radius fields of a returned zone are ordered
\* 0 <= rayon_moy_km <= rayon_max_km <= rayon_theorique_km x 1.05, and
\* rayon_theorique_km is the radius configured for the class.
C27_RadiusOrdered ==
    Returned =>
        /\ 0 <= lastCall.stats_zone["rayon_moy_km"]
        /\ lastCall.stats_zone["rayon_moy_km"] <= lastCall.stats_zone["rayon_max_km"]
        /\ 100 * lastCall.stats_zone["rayon_max_km"] <= 105 * CallRayon
        /\ CallRayon = RayonKm(lastCall.env_params, NormalizeEnv(lastCall.env_val))

\* C27 amended: 0 <= rayon_moy_km <= rayon_max_km, and rayon_max_km, being
\* rounded to 2 decimals, exceeds rayon_theorique_km x 1.05 by at most
\* 0.005 km; rayon_theorique_km is the radius configured for the class.
C27_RadiusOrderedRounded ==
    Returned =>
        /\ 0 <= lastCall.stats_zone["rayon_moy_km"]
        /\ lastCall.stats_zone["rayon_moy_km"] <= lastCall.stats_zone["rayon_max_km"]
        /\ 100 * lastCall.stats_zone["rayon_max_km"] <= 105 * CallRayon + 500
        /\ CallRayon = RayonKm(lastCall.env_params, NormalizeEnv(lastCall.env_val))

\* C27 witness: a zone of several cells whose rayon_max_km was rounded up
\* past rayon_theorique_km x 1.05
C27_Witness ==
    /\ Returned
    /\ Cardinality(lastCall.iris_zone) > 1
    /\ 0 < lastCall.stats_zone["rayon_moy_km"]
    /\ lastCall.stats_zone["rayon_moy_km"] < lastCall.stats_zone["rayon_max_km"]
    /\ 100 * lastCall.stats_zone["rayon_max_km"] > 105 * CallRayon

C26_CacheWriteOnce ==
    [][/\ \A k \in DOMAIN ZONE_CACHE_KM :
             k \in DOMAIN ZONE_CACHE_KM' /\ ZONE_CACHE_KM'[k] = ZONE_CACHE_KM[k]
       /\ lastCall'.kind = "resolve" =>
             /\ \/ ZONE_CACHE_KM' = ZONE_CACHE_KM
                \/ /\ DOMAIN ZONE_CACHE_KM' \ DOMAIN ZONE_CACHE_KM
                         = {Triple(lastCall'.code_iris_centre, lastCall'.env_val,
                                   lastCall'.env_params)}
                   /\ ZONE_CACHE_KM'[Triple(lastCall'.code_iris_centre,
                                            lastCall'.env_val,
                                            lastCall'.env_params)].stats
                         = lastCall'.stats_zone
             /\ (lastCall'.raised # None \/ lastCall'.hit)
                   => ZONE_CACHE_KM' = ZONE_CACHE_KM]_vars

\* C26 witness: a call added its entry to a cache that held others, which
\* are still what their first call stored
C26_Witness ==
    /\ Returned
    /\ ~lastCall.hit
    /\ CallTriple \in DOMAIN ZONE_CACHE_KM
    /\ Cardinality(DOMAIN ZONE_CACHE_KM) >= 2
    /\ \A k \in DOMAIN ZONE_CACHE_KM : ZONE_CACHE_KM[k].stats = firstStored[k].stats

\* C28: a run in which no point lies in a cell returns, with an empty
\* zones_df, an empty iris_agg_df and stats_globales = {Population totale: 0}.
C28_EmptyRunReturns ==
    (run.pc # "none" /\ Orphans = run.points_gdf) =>
        /\ RunReturned
        /\ run.zones_df = {}
        /\ DOMAIN run.iris_agg_df = {}
        /\ run.stats_globales = ("Population totale" :> 0)

C24_NoPartialIndexRead ==
    \A t \in Threads :
        (/\ conc.thread[t].pc = "done"
         /\ ~conc.thread[t].hit
         /\ conc.thread[t].raised \notin {"InvalidConfig", "NotFound"})
        => /\ conc.thread[t].index_read.sindex # None
           /\ conc.thread[t].index_read.centroids # None

=============================================================================
